---- MODULE Spec2Model ----
(***************************************************************************)
(* Job execution model of the citation extractor (src/app.py).             *)
(*                                                                         *)
(* JOBS is the global job registry; every submitted job has one worker     *)
(* thread (scrape_scholar or scrape_multiple_authors).  A worker step is   *)
(* one access to JOBS or one call to the external data source, so that     *)
(* the stop request and the other workers interleave with it exactly at    *)
(* the places where the threads of the program can interleave.             *)
(*                                                                         *)
(* A status text "\n".join(logs) is modelled by the sequence of its lines; *)
(* a line is a pair <<tag, n>>.  A publication is the index it has in the  *)
(* author's publication list.                                              *)
(*                                                                         *)
(* Spec follows one job, SpecJobs two jobs side by side.  SpecTables is    *)
(* the computation of the export tables (start years, year columns, row    *)
(* cells, aggregates, ranked sheet) from the data of an author's           *)
(* publications; SpecRecords is the same for one publication read from     *)
(* any record the source may return.  SpecFair is Spec with threads that   *)
(* are scheduled and calls to the data source that return.                 *)
(***************************************************************************)
EXTENDS Integers, Sequences, FiniteSets, TLC

\* Bounds of the model: the publications of an author, the authors of a
\* multi-author job.
MaxPubs == 2
MaxAuthors == 2

\* The publications of an author when two jobs run side by side.
PairPubs == 1

\* The job ids a request can name.  The ids uuid4 hands out in a run are
\* env.ids, a subset: an id outside it is the id of no job, ever.
JobIds == {1, 2}

\* Python's None for a string field, and for a list/dict field.
NoneV == "None"
NoneSeq == [some |-> FALSE, v |-> <<>>]
Some(s) == [some |-> TRUE, v |-> s]

VARIABLES
    JOBS,      \* job id -> job entry (the registry dict)
    worker,    \* job id -> the local state of the job's worker thread
    files,     \* the export files that exist under tmp/, named by job id
    env,       \* the run's environment: ids handed out, sizes the source returns
    fetched,   \* the records scholarly.fill returned for pubdata's entries
    pubdata,   \* a list of processed publications (pub_citation_data)
    export,    \* the tables computed from pubdata
    author_summaries  \* the summaries of the authors a multi-author job processed

vars == <<JOBS, worker, files, env, fetched, pubdata, export, author_summaries>>

\* The variables of the export computations, which no job step touches.
tables == <<fetched, pubdata, export, author_summaries>>

----------------------------------------------------------------------------
\* Helpers

\* log(message): logs.append(message); the status is the join of logs.
log_replace(logs, message) == <<message>>
log(logs, message) == Append(logs, message)

IsPrefix(s, t) == Len(s) <= Len(t) /\ SubSeq(t, 1, Len(s)) = s

Line(tag) == <<tag, 0>>

\* The registry entry created by /start and /start_multi.
NewJob(kind) ==
    [ status          |-> << Line(IF kind = "single" THEN "Initializing single-author job"
                                                     ELSE "Initializing multi-author job") >>,
      done            |-> FALSE,
      error           |-> NoneV,
      filename        |-> NoneV,
      citation_data   |-> NoneSeq,
      summary         |-> NoneSeq,
      multi_summaries |-> NoneSeq,
      max_individual_span |-> NoneV,
      cancelled       |-> FALSE ]

\* The local state of a worker thread that has not run yet.  The fields
\* results, fetch_calls, fill_calls, outcome, records and stopped are history:
\* they record which calls the thread made and how they ended.
NewWorker(kind, n) ==
    [ kind        |-> kind,
      pc          |-> "begin",
      logs        |-> <<>>,
      nIds        |-> n,        \* len(list_of_ids); 1 for a single job
      idx         |-> 1,        \* the author being processed
      nPubs       |-> 0,        \* len(author["publications"])
      pub_idx     |-> 1,        \* the publication being processed
      pub_citation_data |-> <<>>,
      summaries   |-> <<>>,
      err         |-> NoneV,    \* the message about to be stored as the error
      results     |-> <<>>,     \* per publication of this author: fetch succeeded
      fetch_calls |-> 0,        \* calls of scholarly.fill(pub) for this author
      fill_calls  |-> 0,        \* calls of scholarly.fill(author) for this author
      sections    |-> "",       \* the sections the author was loaded with
      outcome     |-> <<>>,     \* per author handled: "ok" or "failed"
      records     |-> 0,        \* publication records fetched in the whole job
      stopped     |-> "",       \* the checkpoint whose cancel branch was taken
      file        |-> "none" ]  \* the export file: "none", "partial", "complete"

Running(j) == j \in DOMAIN JOBS /\ worker[j].pc # "finished"

\* (mutant) the threads share one log: a step writes its status to every job.
Step_shared_log(j, w, job) ==
    /\ worker' = [worker EXCEPT ![j] = w]
    /\ JOBS' = [k \in DOMAIN JOBS |->
                  IF k = j THEN job ELSE [JOBS[k] EXCEPT !.status = job.status]]
    /\ UNCHANGED <<files, env, tables>>

\* One step of worker j: its new local state and its new registry entry.
Step(j, w, job) ==
    /\ worker' = [worker EXCEPT ![j] = w]
    /\ JOBS' = [JOBS EXCEPT ![j] = job]
    /\ UNCHANGED <<files, env, tables>>

\* A step that appends one line to the log.
LogStep(j, message, w) ==
    LET l == log(worker[j].logs, message)
    IN Step(j, [w EXCEPT !.logs = l], [JOBS[j] EXCEPT !.status = l])

\* A step that touches only the thread's locals.
LocalStep(j, w) ==
    /\ worker' = [worker EXCEPT ![j] = w]
    /\ UNCHANGED <<JOBS, files, env, tables>>

----------------------------------------------------------------------------
\* No job has been submitted.  One job is followed through publication lists
\* of up to MaxPubs entries and id lists of up to MaxAuthors entries.
NoTables == fetched = << >> /\ pubdata = << >> /\ export = [built |-> "none"] /\ author_summaries = << >>

Init ==
    /\ JOBS = << >>
    /\ worker = << >>
    /\ files = {}
    /\ env = [ids |-> {1}, pubs |-> MaxPubs, authors |-> MaxAuthors, records |-> "none"]
    /\ NoTables

----------------------------------------------------------------------------
\* Request handlers

\* uuid.uuid4(): an id no job has.
FreshId == CHOOSE j \in env.ids \ DOMAIN JOBS : \A k \in env.ids \ DOMAIN JOBS : j <= k

\* (mutant) the id is not fresh: a submission takes over a registered id.
start_reused_id ==
    LET id == CHOOSE j \in env.ids : \A k \in env.ids : j <= k IN
    /\ env.ids \ DOMAIN JOBS # {}
    /\ JOBS' = (id :> NewJob("single")) @@ JOBS
    /\ worker' = (id :> NewWorker("single", 1)) @@ worker
    /\ UNCHANGED <<files, env, tables>>

\* POST /start: register the job, then start its worker thread.
start ==
    /\ env.ids \ DOMAIN JOBS # {}
    /\ JOBS' = JOBS @@ (FreshId :> NewJob("single"))
    /\ worker' = worker @@ (FreshId :> NewWorker("single", 1))
    /\ UNCHANGED <<files, env, tables>>

\* POST /start_multi with n scholar ids (n >= 1, else the request is refused).
start_multi ==
    /\ env.ids \ DOMAIN JOBS # {}
    /\ \E n \in 1..env.authors :
          /\ JOBS' = JOBS @@ (FreshId :> NewJob("multi"))
          /\ worker' = worker @@ (FreshId :> NewWorker("multi", n))
    /\ UNCHANGED <<files, env, tables>>

\* The "success" field of the reply of POST /stop/<job_id> (404 when false).
stop_job_success(j) == j \in DOMAIN JOBS

\* (mutant) the request flips the flag instead of setting it.
stop_job_toggle(j) ==
    IF j \in DOMAIN JOBS
    THEN /\ JOBS' = [JOBS EXCEPT ![j].cancelled = ~ JOBS[j].cancelled]
         /\ UNCHANGED <<worker, files, env, tables>>
    ELSE UNCHANGED vars

\* POST /stop/<job_id>: sets the flag of a known job; nothing for an unknown id.
stop_job(j) ==
    IF j \in DOMAIN JOBS
    THEN /\ JOBS' = [JOBS EXCEPT ![j].cancelled = TRUE]
         /\ UNCHANGED <<worker, files, env, tables>>
    ELSE UNCHANGED vars

\* GET /status/<job_id>, GET /download/<job_id>, GET /download_multi/<job_id>:
\* they read the entry of the job (and the file) and write nothing.
job_status(j) == j \in DOMAIN JOBS /\ UNCHANGED vars

\* job.get(field) of a list field is true: it is set and not empty.
Truthy(field) == field.some /\ field.v # << >>

\* The links /status/<job_id> shows: none before the job is done and has a
\* filename, then those of a multi-author job if multi_summaries is set,
\* else those of a single-author job.
job_status_links(j) ==
    IF JOBS[j].done /\ JOBS[j].filename # NoneV
    THEN IF Truthy(JOBS[j].multi_summaries)
         THEN [download_url |-> "download_multi", visualization_url |-> "visualization_multi"]
         ELSE [download_url |-> "download_file", visualization_url |-> "visualization"]
    ELSE [download_url |-> NoneV, visualization_url |-> NoneV]

\* /api/multi_summary/<job_id> answers with the summaries, not with 404.
api_multi_summary_success(j) == j \in DOMAIN JOBS /\ Truthy(JOBS[j].multi_summaries)

api_multi_summary(j) == api_multi_summary_success(j) /\ UNCHANGED vars

\* The file of the job is sent: the job has a filename and a file of that
\* name exists.
download_file_success(j) ==
    j \in DOMAIN JOBS /\ JOBS[j].filename # NoneV /\ j \in files

download_file(j) == download_file_success(j) /\ UNCHANGED vars

download_multi_success(j) ==
    j \in DOMAIN JOBS /\ JOBS[j].filename # NoneV /\ j \in files

download_multi(j) == download_multi_success(j) /\ UNCHANGED vars

----------------------------------------------------------------------------
\* process_author_publications: the publication loop of both kinds of job

\* Where the caller continues when the loop returns.
AfterPubs(w) == IF w.kind = "single" THEN "store_citation_data" ELSE "post_check"

\* The loop head for publication k of the author.
PubLoop(w, k) == IF k > w.nPubs THEN AfterPubs(w) ELSE "pub_check"

\* (mutant) the cancel branch lacks its return: the publication is fetched.
pub_check_no_return(j) ==
    /\ Running(j) /\ worker[j].pc = "pub_check"
    /\ LET w == worker[j] IN
       IF JOBS[j].cancelled
       THEN Step(j, [w EXCEPT !.pc = "fetch", !.stopped = "publication"],
                    [JOBS[j] EXCEPT !.cancelled = TRUE])
       ELSE LocalStep(j, [w EXCEPT !.pc = "fetch"])

\* The checkpoint before a publication: return when the job is cancelled.
pub_check(j) ==
    /\ Running(j) /\ worker[j].pc = "pub_check"
    /\ LET w == worker[j] IN
       IF JOBS[j].cancelled
       THEN Step(j, [w EXCEPT !.pc = AfterPubs(w), !.stopped = "publication"],
                    [JOBS[j] EXCEPT !.cancelled = TRUE])
       ELSE LocalStep(j, [w EXCEPT !.pc = "fetch"])

\* (mutant) a failed fetch leaves the loop (break) instead of skipping.
fetch_pub_break(j) ==
    /\ Running(j) /\ worker[j].pc = "fetch"
    /\ LET w == worker[j] IN
       \/ LocalStep(j, [w EXCEPT
              !.pc = PubLoop(w, w.pub_idx + 1),
              !.pub_idx = w.pub_idx + 1,
              !.pub_citation_data = Append(w.pub_citation_data, w.pub_idx),
              !.results = Append(w.results, TRUE),
              !.fetch_calls = w.fetch_calls + 1,
              !.records = w.records + 1])
       \/ LocalStep(j, [w EXCEPT
              !.pc = AfterPubs(w),
              !.results = Append(w.results, FALSE),
              !.fetch_calls = w.fetch_calls + 1])

\* (mutant) the record of a failed fetch is appended too.
fetch_pub_keep_failed(j) ==
    /\ Running(j) /\ worker[j].pc = "fetch"
    /\ LET w == worker[j] IN
       \E ok \in BOOLEAN :
          LocalStep(j, [w EXCEPT
              !.pc = PubLoop(w, w.pub_idx + 1),
              !.pub_idx = w.pub_idx + 1,
              !.pub_citation_data = Append(w.pub_citation_data, w.pub_idx),
              !.results = Append(w.results, ok),
              !.fetch_calls = w.fetch_calls + 1,
              !.records = IF ok THEN w.records + 1 ELSE w.records])

\* (mutant) a failed fetch is tried again, as often as it fails.
fetch_pub_retry(j) ==
    /\ Running(j) /\ worker[j].pc = "fetch"
    /\ LET w == worker[j] IN
       \/ LocalStep(j, [w EXCEPT
              !.pc = PubLoop(w, w.pub_idx + 1),
              !.pub_idx = w.pub_idx + 1,
              !.pub_citation_data = Append(w.pub_citation_data, w.pub_idx),
              !.results = Append(w.results, TRUE),
              !.fetch_calls = w.fetch_calls + 1,
              !.records = w.records + 1])
       \/ LocalStep(j, [w EXCEPT !.pc = "pub_check"])

\* scholarly.fill(pub) returns or raises; a failed publication is skipped.
fetch_pub(j) ==
    /\ Running(j) /\ worker[j].pc = "fetch"
    /\ LET w == worker[j] IN
       \E ok \in BOOLEAN :
          LocalStep(j, [w EXCEPT
              !.pc = PubLoop(w, w.pub_idx + 1),
              !.pub_idx = w.pub_idx + 1,
              !.pub_citation_data = IF ok THEN Append(w.pub_citation_data, w.pub_idx)
                                          ELSE w.pub_citation_data,
              !.results = Append(w.results, ok),
              !.fetch_calls = w.fetch_calls + 1,
              !.records = IF ok THEN w.records + 1 ELSE w.records])

----------------------------------------------------------------------------
\* Steps shared by the two workers

\* JOBS[job_id]["error"] = ...; return
set_error(j) ==
    /\ Running(j) /\ worker[j].pc = "set_error"
    /\ Step(j, [worker[j] EXCEPT !.pc = "finished"],
               [JOBS[j] EXCEPT !.error = worker[j].err])

\* except Exception as e: log(FATAL); the error is stored next.
fatal(j) ==
    /\ Running(j) /\ worker[j].pc = "fatal"
    /\ LogStep(j, Line("FATAL Error"), [worker[j] EXCEPT !.pc = "set_error"])

----------------------------------------------------------------------------
\* scrape_scholar: the worker of a single-author job

Single(j) == Running(j) /\ worker[j].kind = "single"

\* The author was loaded with n publications: log the count, enter the loop.
scholar_filled(j, n, sections) ==
    LogStep(j, <<"Found publications", n>>,
            [worker[j] EXCEPT !.nPubs = n,
                              !.fill_calls = @ + 1, !.sections = sections,
                              !.pc = IF n = 0 THEN "no_pubs" ELSE "pub_check"])

scrape_scholar_begin(j) ==
    /\ Single(j) /\ worker[j].pc = "begin"
    /\ LogStep(j, Line("Starting single job"), [worker[j] EXCEPT !.pc = "search"])

\* scholarly.search_author_id
scrape_scholar_search(j) ==
    /\ Single(j) /\ worker[j].pc = "search"
    /\ \/ LogStep(j, Line("Found author"), [worker[j] EXCEPT !.pc = "fill"])
       \/ LogStep(j, Line("Error finding author"),
                  [worker[j] EXCEPT !.pc = "set_error", !.err = "Error finding author",
                                    !.outcome = Append(@, "failed")])

\* scholarly.fill(author, sections = publications, basics, indices)
scrape_scholar_fill(j) ==
    /\ Single(j) /\ worker[j].pc = "fill"
    /\ \/ \E n \in 0..env.pubs : scholar_filled(j, n, "full")
       \/ LogStep(j, Line("Error filling author, attempting publications only"),
                  [worker[j] EXCEPT !.pc = "fill_retry", !.fill_calls = @ + 1])

\* scholarly.fill(author, sections = publications)
scrape_scholar_fill_retry(j) ==
    /\ Single(j) /\ worker[j].pc = "fill_retry"
    /\ \/ \E n \in 0..env.pubs : scholar_filled(j, n, "publications")
       \/ LogStep(j, Line("Failed to get publications"),
                  [worker[j] EXCEPT !.pc = "set_error", !.err = "Failed to retrieve author",
                                    !.fill_calls = @ + 1,
                                    !.outcome = Append(@, "failed")])

scrape_scholar_no_pubs(j) ==
    /\ Single(j) /\ worker[j].pc = "no_pubs"
    /\ LogStep(j, Line("No publications found for this author."),
               [worker[j] EXCEPT !.pc = "set_error", !.err = "No publications found."])

\* JOBS[job_id]["citation_data"] = pub_citation_data, after the loop returned;
\* the rows are built next, and an empty table is not written.
scrape_scholar_store(j) ==
    /\ Single(j) /\ worker[j].pc = "store_citation_data"
    /\ LET w == worker[j] IN
       Step(j, [w EXCEPT !.pc = IF w.pub_citation_data = <<>> THEN "no_rows" ELSE "write"],
               [JOBS[j] EXCEPT !.citation_data = Some(w.pub_citation_data)])

scrape_scholar_no_rows(j) ==
    /\ Single(j) /\ worker[j].pc = "no_rows"
    /\ LogStep(j, Line("No publication rows to write to Excel."),
               [worker[j] EXCEPT !.pc = "set_error", !.err = "No publication rows to write."])

\* (mutant) the artifact location is stored when the write begins.
write_excel_filename_first(j) ==
    /\ Running(j) /\ worker[j].pc = "write"
    /\ \/ /\ files' = files \cup {j}
          /\ worker' = [worker EXCEPT ![j].pc = "save", ![j].file = "partial"]
          /\ JOBS' = [JOBS EXCEPT ![j].filename = "tmp/job_id.xlsx"]
          /\ UNCHANGED <<env, tables>>
       \/ \E left \in BOOLEAN :
            /\ files' = IF left THEN files \cup {j} ELSE files
            /\ worker' = [worker EXCEPT ![j].pc = "fatal", ![j].err = "export failed",
                                        ![j].file = IF left THEN "partial" ELSE "none"]
            /\ UNCHANGED <<JOBS, env, tables>>

\* with pd.ExcelWriter(filename): the sheets are put into the workbook and
\* the file under tmp/ begins to be written, or a to_excel raises; leaving
\* the with block on an exception still closes the writer, which may leave
\* a file behind.
write_excel(j) ==
    /\ Running(j) /\ worker[j].pc = "write"
    /\ \/ /\ files' = files \cup {j}
          /\ worker' = [worker EXCEPT ![j].pc = "save", ![j].file = "partial"]
          /\ UNCHANGED <<JOBS, env, tables>>
       \/ \E left \in BOOLEAN :
            /\ files' = IF left THEN files \cup {j} ELSE files
            /\ worker' = [worker EXCEPT ![j].pc = "fatal", ![j].err = "export failed",
                                        ![j].file = IF left THEN "partial" ELSE "none"]
            /\ UNCHANGED <<JOBS, env, tables>>

\* (mutant) the job is marked done inside the with block, before it ends.
write_excel_close_done_first(j) ==
    /\ Running(j) /\ worker[j].pc = "save"
    /\ \/ LocalStep(j, [worker[j] EXCEPT !.pc = "set_filename", !.file = "complete"])
       \/ Step(j, [worker[j] EXCEPT !.pc = "fatal", !.err = "export failed"],
                  [JOBS[j] EXCEPT !.done = TRUE])

\* The end of the with block: the file is complete, or saving it raises.
write_excel_close(j) ==
    /\ Running(j) /\ worker[j].pc = "save"
    /\ \/ LocalStep(j, [worker[j] EXCEPT !.pc = "set_filename", !.file = "complete"])
       \/ LocalStep(j, [worker[j] EXCEPT !.pc = "fatal", !.err = "export failed"])

\* (mutant) the job is marked done before its artifact location is stored.
scrape_scholar_publish_done_first(j) ==
    /\ Running(j) /\ worker[j].kind = "single"
    /\ LET w == worker[j]
           job == JOBS[j] IN
       \/ /\ w.pc = "set_filename"
          /\ Step(j, [w EXCEPT !.pc = "set_citation_data"], [job EXCEPT !.done = TRUE])
       \/ /\ w.pc = "set_citation_data"
          /\ Step(j, [w EXCEPT !.pc = "set_summary"],
                     [job EXCEPT !.citation_data = Some(w.pub_citation_data)])
       \/ /\ w.pc = "set_summary"
          /\ Step(j, [w EXCEPT !.pc = "set_done"],
                     [job EXCEPT !.summary =
                         Some(<<[author |-> 1, num_publications |-> Len(w.pub_citation_data)]>>)])
       \/ /\ w.pc = "set_done"
          /\ Step(j, [w EXCEPT !.pc = "log_finished"], [job EXCEPT !.filename = "tmp/job_id.xlsx"])
       \/ /\ w.pc = "log_finished"
          /\ LogStep(j, Line("Job finished successfully."), [w EXCEPT !.pc = "finished"])

\* The result is published field by field, then the job is marked done.
scrape_scholar_publish(j) ==
    /\ Single(j)
    /\ LET w == worker[j]
           job == JOBS[j] IN
       \/ /\ w.pc = "set_filename"
          /\ Step(j, [w EXCEPT !.pc = "set_citation_data"], [job EXCEPT !.filename = "tmp/job_id.xlsx"])
       \/ /\ w.pc = "set_citation_data"
          /\ Step(j, [w EXCEPT !.pc = "set_summary"],
                     [job EXCEPT !.citation_data = Some(w.pub_citation_data)])
       \/ /\ w.pc = "set_summary"
          /\ Step(j, [w EXCEPT !.pc = "set_done"],
                     [job EXCEPT !.summary =
                         Some(<<[author |-> 1, num_publications |-> Len(w.pub_citation_data)]>>)])
       \/ /\ w.pc = "set_done"
          /\ Step(j, [w EXCEPT !.pc = "log_finished"], [job EXCEPT !.done = TRUE])
       \/ /\ w.pc = "log_finished"
          /\ LogStep(j, Line("Job finished successfully."), [w EXCEPT !.pc = "finished"])

----------------------------------------------------------------------------
\* scrape_multiple_authors: the worker of a multi-author job

Multi(j) == Running(j) /\ worker[j].kind = "multi"

\* continue / the end of an iteration: the next author, or the end of the loop.
NextAuthor(w) ==
    [w EXCEPT !.idx = w.idx + 1,
              !.pc = IF w.idx + 1 > w.nIds THEN "after_authors" ELSE "author_check",
              !.nPubs = 0, !.pub_idx = 1, !.pub_citation_data = <<>>,
              !.results = <<>>, !.fetch_calls = 0,
              !.fill_calls = 0, !.sections = ""]

\* The author was loaded with n publications: process_author_publications.
author_filled(j, n, sections) ==
    LET w == [worker[j] EXCEPT !.nPubs = n, !.fill_calls = @ + 1, !.sections = sections]
    IN LocalStep(j, [w EXCEPT !.pc = PubLoop(w, 1)])

scrape_multiple_authors_begin(j) ==
    /\ Multi(j) /\ worker[j].pc = "begin"
    /\ LogStep(j, <<"Starting multi-author job", worker[j].nIds>>,
               [worker[j] EXCEPT !.pc = "author_check"])

\* The checkpoint before an author: break when the job is cancelled.
scrape_multiple_authors_check(j) ==
    /\ Multi(j) /\ worker[j].pc = "author_check"
    /\ LET w == worker[j] IN
       IF JOBS[j].cancelled
       THEN LET l == log(w.logs, Line("Job cancelled by user."))
            IN Step(j, [w EXCEPT !.logs = l, !.pc = "after_authors", !.stopped = "author"],
                       [JOBS[j] EXCEPT !.status = l, !.cancelled = TRUE])
       ELSE LogStep(j, <<"Processing", w.idx>>, [w EXCEPT !.pc = "search"])

\* (mutant) an author that is not found ends the loop (break).
scrape_multiple_authors_search_break(j) ==
    /\ Multi(j) /\ worker[j].pc = "search"
    /\ \/ LogStep(j, Line("Found author"), [worker[j] EXCEPT !.pc = "fill"])
       \/ LogStep(j, Line("Error finding author. Skipping."),
                  [worker[j] EXCEPT !.outcome = Append(@, "failed"), !.pc = "after_authors"])

\* scholarly.search_author_id; a failure skips the author.
scrape_multiple_authors_search(j) ==
    /\ Multi(j) /\ worker[j].pc = "search"
    /\ \/ LogStep(j, Line("Found author"), [worker[j] EXCEPT !.pc = "fill"])
       \/ LogStep(j, Line("Error finding author. Skipping."),
                  NextAuthor([worker[j] EXCEPT !.outcome = Append(@, "failed")]))

\* (mutant) no second attempt: the author is given up after the first failure.
scrape_multiple_authors_fill_no_retry(j) ==
    /\ Multi(j) /\ worker[j].pc = "fill"
    /\ \/ \E n \in 0..env.pubs : author_filled(j, n, "full")
       \/ LogStep(j, Line("Failed to fill author. Skipping."),
                  NextAuthor([worker[j] EXCEPT !.outcome = Append(@, "failed")]))

\* scholarly.fill(author, sections = publications, basics, indices)
scrape_multiple_authors_fill(j) ==
    /\ Multi(j) /\ worker[j].pc = "fill"
    /\ \/ \E n \in 0..env.pubs : author_filled(j, n, "full")
       \/ LocalStep(j, [worker[j] EXCEPT !.pc = "fill_retry", !.fill_calls = @ + 1])

scrape_multiple_authors_fill_retry(j) ==
    /\ Multi(j) /\ worker[j].pc = "fill_retry"
    /\ \/ \E n \in 0..env.pubs : author_filled(j, n, "publications")
       \/ LogStep(j, Line("Failed to fill author. Skipping."),
                  NextAuthor([worker[j] EXCEPT !.outcome = Append(@, "failed")]))

\* The summary row of the author whose publications were processed.
SummaryRow(w) == [author |-> w.idx, num_publications |-> Len(w.pub_citation_data)]

\* (mutant) the summary is appended without a look at the cancel flag.
scrape_multiple_authors_post_check_keep_partial(j) ==
    /\ Multi(j) /\ worker[j].pc = "post_check"
    /\ LET w == worker[j] IN
       LocalStep(j, NextAuthor([w EXCEPT !.summaries = Append(@, SummaryRow(w)),
                                         !.outcome = Append(@, "ok")]))

\* After process_author_publications: break when the job is cancelled, else
\* append the author's summary and go on with the next author.
scrape_multiple_authors_post_check(j) ==
    /\ Multi(j) /\ worker[j].pc = "post_check"
    /\ LET w == worker[j] IN
       IF JOBS[j].cancelled
       THEN LogStep(j, Line("Job cancelled during publications retrieval."),
                    [w EXCEPT !.pc = "after_authors",
                              !.stopped = IF w.stopped = "" THEN "after_publications"
                                                            ELSE w.stopped])
       ELSE LocalStep(j, NextAuthor([w EXCEPT !.summaries = Append(@, SummaryRow(w)),
                                              !.outcome = Append(@, "ok")]))

\* After the loop: no summary is an error (stored before it is logged).
scrape_multiple_authors_after(j) ==
    /\ Multi(j) /\ worker[j].pc = "after_authors"
    /\ LET w == worker[j] IN
       IF w.summaries = <<>>
       THEN Step(j, [w EXCEPT !.pc = "log_no_authors"],
                    [JOBS[j] EXCEPT !.error = "No authors processed successfully."])
       ELSE LocalStep(j, [w EXCEPT !.pc = "write"])

scrape_multiple_authors_log_no_authors(j) ==
    /\ Multi(j) /\ worker[j].pc = "log_no_authors"
    /\ LogStep(j, Line("No authors processed successfully."),
               [worker[j] EXCEPT !.pc = "finished"])

\* The result is published field by field; done is set before the summaries.
scrape_multiple_authors_publish(j) ==
    /\ Multi(j)
    /\ LET w == worker[j]
           job == JOBS[j] IN
       \/ /\ w.pc = "set_filename"
          /\ Step(j, [w EXCEPT !.pc = "set_done"], [job EXCEPT !.filename = "tmp/job_id_multi.xlsx"])
       \/ /\ w.pc = "set_done"
          /\ Step(j, [w EXCEPT !.pc = "set_multi_summaries"], [job EXCEPT !.done = TRUE])
       \/ /\ w.pc = "set_multi_summaries"
          /\ Step(j, [w EXCEPT !.pc = "set_max_span"],
                     [job EXCEPT !.multi_summaries = Some(w.summaries)])
       \/ /\ w.pc = "set_max_span"
          /\ Step(j, [w EXCEPT !.pc = "set_status"],
                     [job EXCEPT !.max_individual_span = "set"])
       \/ /\ w.pc = "set_status"
          /\ Step(j, [w EXCEPT !.pc = "finished"],
                     [job EXCEPT !.status = Append(w.logs, Line("Multi-author Excel created."))])

----------------------------------------------------------------------------
Next ==
    \/ start
    \/ start_multi
    \/ \E j \in JobIds : stop_job(j)
    \/ \E j \in JobIds : job_status(j)
    \/ \E j \in JobIds : download_file(j)
    \/ \E j \in JobIds : download_multi(j)
    \/ \E j \in JobIds : api_multi_summary(j)
    \/ \E j \in JobIds : pub_check(j)
    \/ \E j \in JobIds : fetch_pub(j)
    \/ \E j \in JobIds : set_error(j)
    \/ \E j \in JobIds : fatal(j)
    \/ \E j \in JobIds : write_excel(j)
    \/ \E j \in JobIds : write_excel_close(j)
    \/ \E j \in JobIds : scrape_scholar_begin(j)
    \/ \E j \in JobIds : scrape_scholar_search(j)
    \/ \E j \in JobIds : scrape_scholar_fill(j)
    \/ \E j \in JobIds : scrape_scholar_fill_retry(j)
    \/ \E j \in JobIds : scrape_scholar_no_pubs(j)
    \/ \E j \in JobIds : scrape_scholar_store(j)
    \/ \E j \in JobIds : scrape_scholar_no_rows(j)
    \/ \E j \in JobIds : scrape_scholar_publish(j)
    \/ \E j \in JobIds : scrape_multiple_authors_begin(j)
    \/ \E j \in JobIds : scrape_multiple_authors_check(j)
    \/ \E j \in JobIds : scrape_multiple_authors_search(j)
    \/ \E j \in JobIds : scrape_multiple_authors_fill(j)
    \/ \E j \in JobIds : scrape_multiple_authors_fill_retry(j)
    \/ \E j \in JobIds : scrape_multiple_authors_post_check(j)
    \/ \E j \in JobIds : scrape_multiple_authors_after(j)
    \/ \E j \in JobIds : scrape_multiple_authors_log_no_authors(j)
    \/ \E j \in JobIds : scrape_multiple_authors_publish(j)

Spec == Init /\ [][Next]_vars

\* A step of the worker thread of job j.
thread(j) ==
    \/ pub_check(j)
    \/ fetch_pub(j)
    \/ set_error(j)
    \/ fatal(j)
    \/ write_excel(j)
    \/ write_excel_close(j)
    \/ scrape_scholar_begin(j)
    \/ scrape_scholar_search(j)
    \/ scrape_scholar_fill(j)
    \/ scrape_scholar_fill_retry(j)
    \/ scrape_scholar_no_pubs(j)
    \/ scrape_scholar_store(j)
    \/ scrape_scholar_no_rows(j)
    \/ scrape_scholar_publish(j)
    \/ scrape_multiple_authors_begin(j)
    \/ scrape_multiple_authors_check(j)
    \/ scrape_multiple_authors_search(j)
    \/ scrape_multiple_authors_fill(j)
    \/ scrape_multiple_authors_fill_retry(j)
    \/ scrape_multiple_authors_post_check(j)
    \/ scrape_multiple_authors_after(j)
    \/ scrape_multiple_authors_log_no_authors(j)
    \/ scrape_multiple_authors_publish(j)

\* The threads are scheduled, and every call to the data source and every
\* sleep returns: a worker that can take a step takes one.
SpecFair == Init /\ [][Next]_vars /\ \A j \in JobIds : WF_vars(thread(j))

\* Two jobs side by side: both ids are handed out; an author has up to
\* PairPubs publications and an id list one entry, which keeps every step of
\* both kinds of worker and every interleaving of two of them.
InitJobs ==
    /\ JOBS = << >>
    /\ worker = << >>
    /\ files = {}
    /\ env = [ids |-> JobIds, pubs |-> PairPubs, authors |-> 1, records |-> "none"]
    /\ NoTables

SpecJobs == InitJobs /\ [][Next]_vars

----------------------------------------------------------------------------
\* The tables of an export: the data of the processed publications of one
\* author (process_author_publications), and the year alignment computed from
\* them by scrape_scholar and scrape_multiple_authors.

\* The years and counts the data source reports, and the publication years.
Years == {1988, 1993}
Counts == {0, 2}
PubYears == {1986, 1991}

\* int(time.strftime("%Y")) during the run.
CurrentYear == 1995

\* None as a start year, and a publication year int() rejects (the default "").
NoYear == 0

\* The blank cell "".
Blank == -1

Min(S) == CHOOSE x \in S : \A y \in S : x <= y
Max(S) == CHOOSE x \in S : \A y \in S : x >= y

\* get_cites_per_year(pub_filled): a dict from years to counts.
CitesMaps == UNION { [S -> Counts] : S \in SUBSET Years }

\* A value of the source that int() accepts, yielding n, and one it rejects.
Coercible(n) == [ok |-> TRUE, v |-> n]
Uncoercible == [ok |-> FALSE, v |-> 0]

\* A field of the record the source returns: missing, a dict with the items
\* d, or a value that is no dict.
NoField == [kind |-> "absent", items |-> << >>]
NotADict == [kind |-> "other", items |-> << >>]
Dict(d) == [kind |-> "dict", items |-> d]

\* A count the source leaves out (None).
NoneInt == [some |-> FALSE, v |-> 0]

\* The dict the source returns for the counts c.
RawDict(c) == [ k \in { Coercible(y) : y \in DOMAIN c } |-> Coercible(c[k.v]) ]

\* Journal names, normalised: none, one on the list UTD_24_JOURNALS, one
\* that has no part in common with it, and one that is a part of a listed
\* name.
Journals == {"", "management science", "nature", "science"}
UTD_24_JOURNALS == {"management science"}

\* a in b, for the names above: a is b or a part of b.
Within(a, b) == a = b \/ a = "" \/ (a = "science" /\ b = "management science")

\* Page fields, character by character: none, 100-108, 1-6, 1-7, 12,
\* e1-e9, "10 - 20.", 8-1, and 100-108 written with an en dash.
NoPages == << >>
Pages ==
    { NoPages,
      <<"1", "0", "0", "-", "1", "0", "8">>,
      <<"1", "-", "6">>,
      <<"1", "-", "7">>,
      <<"1", "2">>,
      <<"e", "1", "-", "e", "9">>,
      <<"1", "0", " ", "-", " ", "2", "0", ".">>,
      <<"8", "-", "1">>,
      <<"1", "0", "0", "EN DASH", "1", "0", "8">> }

\* The record of a publication: what scholarly.fill(pub) returns, as far as
\* the program reads it.
Record(year, journal, pages, num_citations, citedby, cites_per_year, citesPerYear) ==
    [ pub_year       |-> year,
      journal        |-> journal,
      pages          |-> pages,
      num_citations  |-> num_citations,
      citedby        |-> citedby,
      cites_per_year |-> cites_per_year,
      citesPerYear   |-> citesPerYear ]

\* The publication year of a record with the counts c.  The publication year
\* is read by the fallback of the year range only, which is taken when no
\* publication has per-year counts; a publication that has counts is given
\* the year of its first count.
PubYearsFor(c) == IF DOMAIN c # {} THEN {Min(DOMAIN c)} ELSE PubYears \cup {NoYear}

\* The venues and page ranges of the records the tables are computed from,
\* each with the total the source gives for it: on the list or not, a full
\* article or not.
Venues ==
    { <<"management science", <<"1", "0", "0", "-", "1", "0", "8">>, Some(8)>>,
      <<"management science", <<"1", "-", "6">>, Some(6)>>,
      <<"nature", <<"1", "0", "0", "-", "1", "0", "8">>, Some(5)>>,
      <<"nature", <<"1", "-", "6">>, Some(3)>> }

\* The records the tables are computed from, the counts under the first
\* spelling: every dict with a cited year at every venue; the dicts without
\* one at a single venue; and records whose total is left out or is 9.
FilledPubs ==
    UNION { { Record(y, v[1], v[2], v[3], NoneInt, Dict(RawDict(c)), NoField) :
                y \in PubYearsFor(c),
                v \in IF \E k \in DOMAIN c : c[k] > 0 THEN Venues
                      ELSE { w \in Venues : w[3] = Some(3) } } :
            c \in CitesMaps }
    \cup { Record(Min(PubYearsFor(c)), "nature", <<"1", "-", "6">>, n, NoneInt,
                  Dict(RawDict(c)), NoField) :
             n \in {NoneInt, Some(9)},
             c \in { cc \in CitesMaps : \A y \in DOMAIN cc : y = Max(Years) /\ cc[y] > 0 } }

\* The records a single publication is read from: both spellings of the
\* per-year field, missing, no dict, or a dict with entries int() rejects;
\* every page field and journal; totals left out, 0 or positive.
RawDicts ==
    UNION { [ K -> {Coercible(n) : n \in Counts} \cup {Uncoercible} ] :
            K \in SUBSET ({Coercible(y) : y \in Years} \cup {Uncoercible}) }

RawPubs ==
    { Record(NoYear, j, pg, n, cb, f, g) :
        j \in Journals, pg \in Pages,
        n \in {NoneInt, Some(0), Some(5)}, cb \in {NoneInt, Some(7)},
        f \in {NoField, NotADict} \cup { Dict(d) : d \in RawDicts },
        g \in { NoField, NotADict, Dict(RawDict(Max(Years) :> 2)),
                Dict(RawDict([y \in Years |-> 2])) } }

\* (mutant) the counts of both spellings are merged.
get_cites_per_year_merged(pub) ==
    LET coerced(d) ==
            LET good == { k \in DOMAIN d : k.ok /\ d[k].ok }
            IN [ y \in { k.v : k \in good } |-> d[Coercible(y)].v ]
        first == IF pub.cites_per_year.kind = "dict"
                 THEN coerced(pub.cites_per_year.items) ELSE << >>
        second == IF pub.citesPerYear.kind = "dict"
                  THEN coerced(pub.citesPerYear.items) ELSE << >>
    IN [ y \in DOMAIN first \cup DOMAIN second |->
           IF y \in DOMAIN first THEN first[y] ELSE second[y] ]

\* get_cites_per_year(pub): the items of the first of "cites_per_year",
\* "citesPerYear" that is a dict, as {int(year): int(count)}; an item is left
\* out when int() raises for its year or its count.
get_cites_per_year(pub) ==
    LET coerced(d) ==
            LET good == { k \in DOMAIN d : k.ok /\ d[k].ok }
            IN [ y \in { k.v : k \in good } |-> d[Coercible(y)].v ]
    IN IF pub.cites_per_year.kind = "dict" THEN coerced(pub.cites_per_year.items)
       ELSE IF pub.citesPerYear.kind = "dict" THEN coerced(pub.citesPerYear.items)
       ELSE << >>

\* The decimal digits, and the number a string of digits denotes.
Digits == <<"0", "1", "2", "3", "4", "5", "6", "7", "8", "9">>
DigitValue(c) == (CHOOSE i \in 1..Len(Digits) : Digits[i] = c) - 1

RECURSIVE Decimal(_)
Decimal(str) ==
    IF str = << >> THEN 0
    ELSE 10 * Decimal(SubSeq(str, 1, Len(str) - 1)) + DigitValue(str[Len(str)])

\* int(str): an optional sign and at least one digit, else ValueError.
IntOk(str) ==
    LET body == IF str # << >> /\ str[1] \in {"-", "+"} THEN Tail(str) ELSE str
    IN body # << >> /\ \A i \in 1..Len(body) : \E d \in 1..Len(Digits) : body[i] = Digits[d]

IntOf(str) ==
    IF str[1] = "-" THEN 0 - Decimal(Tail(str))
    ELSE IF str[1] = "+" THEN Decimal(Tail(str))
    ELSE Decimal(str)

\* (mutant) a page range counts as a full article from 6 pages on.
check_utd_journal_by_page_count(journal_name, pages_field) ==
    LET norm == journal_name
        is_utd == norm # "" /\ \E utd \in UTD_24_JOURNALS : Within(utd, norm) \/ Within(norm, utd)
        keep(c) == c \notin {" ", ".", ","}
        pages_str == SelectSeq(pages_field, keep)
        dashes == { i \in 1..Len(pages_str) : pages_str[i] = "-" }
        start_page_str == SubSeq(pages_str, 1, Min(dashes) - 1)
        end_page_str == SubSeq(pages_str, Min(dashes) + 1, Len(pages_str))
        is_full_article ==
            /\ pages_field # NoPages
            /\ dashes # {}
            /\ IntOk(start_page_str) /\ IntOk(end_page_str)
            /\ IntOf(end_page_str) - IntOf(start_page_str) + 1 >= 6
    IN [is_utd |-> is_utd, is_full_article |-> is_full_article]

\* check_utd_journal(journal_name, pages_field): the name is on the list;
\* the pages, without blanks, dots and commas and split at the first "-",
\* are two integers with end - start >= 6.  An exception leaves the flag
\* false.
check_utd_journal(journal_name, pages_field) ==
    LET norm == journal_name
        is_utd == norm # "" /\ \E utd \in UTD_24_JOURNALS : Within(utd, norm) \/ Within(norm, utd)
        keep(c) == c \notin {" ", ".", ","}
        pages_str == SelectSeq(pages_field, keep)
        dashes == { i \in 1..Len(pages_str) : pages_str[i] = "-" }
        start_page_str == SubSeq(pages_str, 1, Min(dashes) - 1)
        end_page_str == SubSeq(pages_str, Min(dashes) + 1, Len(pages_str))
        is_full_article ==
            /\ pages_field # NoPages
            /\ dashes # {}
            /\ IntOk(start_page_str) /\ IntOk(end_page_str)
            /\ IntOf(end_page_str) - IntOf(start_page_str) >= 6
    IN [is_utd |-> is_utd, is_full_article |-> is_full_article]

\* total_cites = pub_filled.get("num_citations") or pub_filled.get("citedby") or 0
total_cites(pub) ==
    IF pub.num_citations.some /\ pub.num_citations.v # 0 THEN pub.num_citations.v
    ELSE IF pub.citedby.some /\ pub.citedby.v # 0 THEN pub.citedby.v
    ELSE 0

\* (mutant) without a cited year the start year is the first year present.
start_year_first_key(citations_by_year) ==
    LET positive_years == { y \in DOMAIN citations_by_year :
                               citations_by_year[y] # 0 /\ citations_by_year[y] > 0 }
    IN IF positive_years # {} THEN Min(positive_years)
       ELSE IF DOMAIN citations_by_year # {} THEN Min(DOMAIN citations_by_year)
       ELSE NoYear

\* start_year: the first year with a count > 0, else None.
start_year(citations_by_year) ==
    LET positive_years == { y \in DOMAIN citations_by_year :
                               citations_by_year[y] # 0 /\ citations_by_year[y] > 0 }
    IN IF positive_years # {} THEN Min(positive_years) ELSE NoYear

\* pub_data, the entry appended to pub_citation_data.
pub_data(pub_filled) ==
    LET citations_by_year == get_cites_per_year(pub_filled)
        flags == check_utd_journal(pub_filled.journal, pub_filled.pages)
        utd_flag == IF flags.is_full_article THEN 1 ELSE 0
    IN [ pub_year         |-> pub_filled.pub_year,
         total_citations  |-> total_cites(pub_filled),
         start_year       |-> start_year(citations_by_year),
         cites_by_year    |-> citations_by_year,
         utd_journal      |-> IF flags.is_utd THEN "Yes" ELSE "No",
         utd_full_article |-> utd_flag ]

\* all_citation_years: the keys of every publication's counts.
all_citation_years(pubs) ==
    UNION { DOMAIN pubs[i].cites_by_year : i \in 1..Len(pubs) }

\* <<min_cite_year, max_cite_year>>, with the fallbacks to the publication
\* years and to the current year.
cite_year_range(pubs) ==
    LET years == all_citation_years(pubs)
        pub_years == { pubs[i].pub_year : i \in 1..Len(pubs) } \ {NoYear}
    IN IF years # {} THEN <<Min(years), Max(years)>>
       ELSE IF pub_years # {} THEN <<Min(pub_years), Max(pub_years)>>
       ELSE <<CurrentYear, CurrentYear>>

\* d.get(y, default)
get(d, y, default) == IF y \in DOMAIN d THEN d[y] ELSE default

\* (mutant) an item replaces the entry of its year instead of adding to it.
RECURSIVE add_items_overwrite(_, _, _)
add_items_overwrite(agg, cites, keys) ==
    IF keys = {} THEN agg
    ELSE LET y == Min(keys)
             added == IF y \in DOMAIN agg
                      THEN [agg EXCEPT ![y] = cites[y]]
                      ELSE agg @@ (y :> cites[y])
         IN add_items_overwrite(added, cites, keys \ {y})

\* agg[y] = agg.get(y, 0) + c for every item (y, c) of one publication.
RECURSIVE add_items(_, _, _)
add_items(agg, cites, keys) ==
    IF keys = {} THEN agg
    ELSE LET y == Min(keys)
             added == IF y \in DOMAIN agg
                      THEN [agg EXCEPT ![y] = get(agg, y, 0) + cites[y]]
                      ELSE agg @@ (y :> get(agg, y, 0) + cites[y])
         IN add_items(added, cites, keys \ {y})

\* The loop over pub_citation_data that fills agg_years, and agg_years_utd
\* (utd_only) from the publications with utd_full_article == 1.
RECURSIVE aggregate(_, _, _)
aggregate(agg, pubs, utd_only) ==
    IF pubs = << >> THEN agg
    ELSE LET p == Head(pubs)
             is_utd_full == (p.utd_full_article = 1)
         IN aggregate(
                IF utd_only /\ ~ is_utd_full THEN agg
                ELSE add_items(agg, p.cites_by_year, DOMAIN p.cites_by_year),
                Tail(pubs), utd_only)

\* (mutant) the aggregate of the run before is kept and added to.
agg_years_kept(min_cite_year, max_cite_year) ==
    IF export.built = "single" THEN export.years.agg_years
    ELSE [year \in min_cite_year..max_cite_year |-> 0]

\* agg_years = {} and a 0 for every year of the range, anew in every run.
agg_years_zeros(min_cite_year, max_cite_year) ==
    [year \in min_cite_year..max_cite_year |-> 0]

\* (mutant) the summary starts at the first cited year, whatever it is.
author_years_no_floor(pubs) ==
    LET range == cite_year_range(pubs)
        min_cite_year == range[1]
        max_cite_year == range[2]
        zeros == agg_years_zeros(min_cite_year, max_cite_year)
    IN [ min_cite_year      |-> min_cite_year,
         max_cite_year      |-> max_cite_year,
         agg_years          |-> aggregate(zeros, pubs, FALSE),
         agg_years_utd      |-> aggregate(zeros, pubs, TRUE),
         summary_start_year |-> min_cite_year,
         summary_end_year   |-> max_cite_year,
         summary_years_span |-> max_cite_year - min_cite_year + 1 ]

\* The years of an author and the aggregates over them, computed alike by
\* both kinds of job.
author_years(pubs) ==
    LET range == cite_year_range(pubs)
        min_cite_year == range[1]
        max_cite_year == range[2]
        zeros == agg_years_zeros(min_cite_year, max_cite_year)
        summary_start_year == IF min_cite_year # 0
                              THEN Max({min_cite_year, 1990}) ELSE 1990
        summary_end_year == IF max_cite_year < summary_start_year
                            THEN summary_start_year ELSE max_cite_year
    IN [ min_cite_year      |-> min_cite_year,
         max_cite_year      |-> max_cite_year,
         agg_years          |-> aggregate(zeros, pubs, FALSE),
         agg_years_utd      |-> aggregate(zeros, pubs, TRUE),
         summary_start_year |-> summary_start_year,
         summary_end_year   |-> summary_end_year,
         summary_years_span |-> summary_end_year - summary_start_year + 1 ]

\* (mutant) the column count lacks its minimum.
num_years_no_minimum(pubs, max_cite_year) ==
    LET span(data) == Max({0, max_cite_year - data.start_year + 1})
        max_consecutive_years ==
            Max({0} \cup { span(pubs[i]) : i \in { k \in 1..Len(pubs) :
                                                     pubs[k].start_year # NoYear } })
    IN max_consecutive_years + 2

\* (mutant) the column count lacks the two columns of headroom.
num_years_no_headroom(pubs, max_cite_year) ==
    LET span(data) == Max({0, max_cite_year - data.start_year + 1})
        max_consecutive_years ==
            Max({0} \cup { span(pubs[i]) : i \in { k \in 1..Len(pubs) :
                                                     pubs[k].start_year # NoYear } })
    IN Max({max_consecutive_years, 5})

\* num_years = max(max_consecutive_years + 2, 5)
num_years(pubs, max_cite_year) ==
    LET span(data) == Max({0, max_cite_year - data.start_year + 1})
        max_consecutive_years ==
            Max({0} \cup { span(pubs[i]) : i \in { k \in 1..Len(pubs) :
                                                     pubs[k].start_year # NoYear } })
    IN Max({max_consecutive_years + 2, 5})

\* (mutant) every row is aligned to the first year of the author.
year_cells_common_start(data, n, min_cite_year) ==
    [ i \in 1..n |-> get(data.cites_by_year, min_cite_year + (i - 1), Blank) ]

\* The cells Year 1 .. Year n of the row of one publication.
year_cells(data, n, min_cite_year) ==
    IF data.start_year # NoYear
    THEN [ i \in 1..n |-> get(data.cites_by_year, data.start_year + (i - 1), Blank) ]
    ELSE [ i \in 1..n |-> Blank ]

\* (mutant) a year the aggregate has no entry for is left blank.
year_n_values_blank(a) ==
    [ i \in 1..a.summary_years_span |->
        get(a.agg_years, a.summary_start_year + (i - 1), Blank) ]

\* year_n_values, the cells Year 1 .. of the summary row of a single-author
\* job: agg_years.get(summary_start_year + i, 0) for i in range(span).
year_n_values(a) ==
    [ i \in 1..a.summary_years_span |->
        get(a.agg_years, a.summary_start_year + (i - 1), 0) ]

\* (mutant) the cells beyond the span of an author hold 0.
summary_row_zero_filled(s, max_individual_span) ==
    [ i \in 1..max_individual_span |->
        get(s.agg_years, s.summary_start_year + (i - 1), 0) ]

\* The cells Year 1 .. Year max_individual_span of the row of one author in
\* the sheet of a multi-author job.
summary_row(s, max_individual_span) ==
    [ i \in 1..max_individual_span |->
        IF i - 1 < s.summary_years_span
        THEN get(s.agg_years, s.summary_start_year + (i - 1), 0)
        ELSE Blank ]

\* max_individual_span after the authors of ss: the largest span, from 0.
RECURSIVE widest_span(_, _)
widest_span(ss, max_individual_span) ==
    IF ss = << >> THEN max_individual_span
    ELSE widest_span(Tail(ss),
                     IF Head(ss).summary_years_span > max_individual_span
                     THEN Head(ss).summary_years_span ELSE max_individual_span)

\* process_author_publications appends the entry of one fetched publication.
process_author_publications ==
    /\ export.built = "none"
    /\ Len(pubdata) < env.pubs
    /\ \E pub_filled \in (IF env.records = "raw" THEN RawPubs ELSE FilledPubs) :
          /\ fetched' = Append(fetched, pub_filled)
          /\ pubdata' = Append(pubdata, pub_data(pub_filled))
    /\ UNCHANGED <<JOBS, worker, files, env, export, author_summaries>>

\* (mutant) the frame is sorted by "TOTAL citations", smallest first.
sort_values_ascending(df) ==
    { order \in [1..Len(df) -> 1..Len(df)] :
        /\ \A i, k \in 1..Len(df) : i # k => order[i] # order[k]
        /\ \A i, k \in 1..Len(df) :
              i < k => df[order[i]].total_citations <= df[order[k]].total_citations }

\* df.sort_values(by="TOTAL citations", ascending=False): the orders of the
\* rows the sort may produce.  The default sort is not stable, so rows with
\* equal totals come in any order.
sort_values(df) ==
    { order \in [1..Len(df) -> 1..Len(df)] :
        /\ \A i, k \in 1..Len(df) : i # k => order[i] # order[k]
        /\ \A i, k \in 1..Len(df) :
              i < k => df[order[i]].total_citations >= df[order[k]].total_citations }

\* scrape_scholar: year range, aggregate, column count and rows of the
\* publication sheet, in the order of pub_citation_data, the sheet sorted by
\* total citations and ranked (row i of the sheet is row sheet[i].row of
\* rows, with the columns of that publication), and the cells of the summary
\* row.
scrape_scholar_run(runs) ==
    /\ LET a == author_years(pubdata)
           n == num_years(pubdata, a.max_cite_year)
           rows == [ i \in 1..Len(pubdata) |->
                       year_cells(pubdata[i], n, a.min_cite_year) ]
       IN \E order \in sort_values(pubdata) :
            export' = [ built     |-> "single",
                        runs      |-> runs,
                        years     |-> a,
                        num_years |-> n,
                        rows      |-> rows,
                        sheet     |-> [ i \in 1..Len(pubdata) |->
                                          [Rank |-> i, row |-> order[i]] ],
                        year_n_values |-> year_n_values(a) ]
    /\ UNCHANGED <<JOBS, worker, files, env, fetched, pubdata, author_summaries>>

\* scrape_scholar on the publications of a new job.
scrape_scholar_tables ==
    /\ export.built = "none" /\ author_summaries = << >>
    /\ scrape_scholar_run(1)

\* scrape_scholar once more on the same publications, in the same year.
scrape_scholar_tables_again ==
    /\ export.built = "single" /\ export.runs = 1
    /\ scrape_scholar_run(2)

\* scrape_multiple_authors: the summary of the author is appended.
scrape_multiple_authors_tables ==
    /\ export.built = "none" /\ Len(author_summaries) < env.authors
    /\ LET a == author_years(pubdata) IN
       /\ export' = [ built |-> "multi",
                      years |-> a,
                      num_publications |-> Len(pubdata) ]
       /\ author_summaries' = Append(author_summaries, a)
    /\ UNCHANGED <<JOBS, worker, files, env, fetched, pubdata>>

\* scrape_multiple_authors goes on with the next id of the list.
scrape_multiple_authors_next ==
    /\ export.built = "multi" /\ Len(author_summaries) < env.authors
    /\ fetched' = << >>
    /\ pubdata' = << >>
    /\ export' = [built |-> "none"]
    /\ UNCHANGED <<JOBS, worker, files, env, author_summaries>>

\* scrape_multiple_authors after the last author: the rows of the sheet, one
\* per summary, max_individual_span Year cells each.
scrape_multiple_authors_rows ==
    /\ export.built = "multi"
    /\ LET span == widest_span(author_summaries, 0) IN
       export' = [ built |-> "multi_rows",
                   years |-> export.years,
                   num_publications |-> export.num_publications,
                   max_individual_span |-> span,
                   rows  |-> [ k \in 1..Len(author_summaries) |->
                                 summary_row(author_summaries[k], span) ] ]
    /\ UNCHANGED <<JOBS, worker, files, env, fetched, pubdata, author_summaries>>

\* The tables of one author with up to MaxPubs publications, or of two
\* authors with up to PairPubs publications each.
InitTables ==
    /\ JOBS = << >>
    /\ worker = << >>
    /\ files = {}
    /\ env \in { [ids |-> {}, pubs |-> MaxPubs, authors |-> 1, records |-> "filled"],
                 [ids |-> {}, pubs |-> PairPubs, authors |-> 2, records |-> "filled"] }
    /\ NoTables

NextTables ==
    \/ process_author_publications
    \/ scrape_scholar_tables
    \/ scrape_scholar_tables_again
    \/ scrape_multiple_authors_tables
    \/ scrape_multiple_authors_next
    \/ scrape_multiple_authors_rows

SpecTables == InitTables /\ [][NextTables]_vars

\* The tables of one author with one publication, read from any record.
InitRecords ==
    /\ JOBS = << >>
    /\ worker = << >>
    /\ files = {}
    /\ env = [ids |-> {}, pubs |-> 1, authors |-> 1, records |-> "raw"]
    /\ NoTables

NextRecords ==
    \/ process_author_publications
    \/ scrape_scholar_tables

SpecRecords == InitRecords /\ [][NextRecords]_vars

----------------------------------------------------------------------------
\* Vocabulary of the properties

Jobs == DOMAIN JOBS
Finished(j) == worker[j].pc = "finished"
Failed(j) == JOBS[j].error # NoneV
Terminal(j) == JOBS[j].done \/ Failed(j)

\* TRUE counts 1.
Num(b) == IF b THEN 1 ELSE 0

\* The publications whose fetch succeeded, in fetch order.
OkPubs(results) ==
    SelectSeq([k \in 1..Len(results) |-> k], LAMBDA k : results[k])

\* The publications whose fetch failed.
FailedPubs(results) == {k \in 1..Len(results) : ~results[k]}

\* The warning lines of a log.
Warnings(logs) == {k \in 1..Len(logs) : logs[k][1] = "Skipping publication"}

\* The pcs at which a publication fetch or an author lookup is started or
\* is in flight.
FetchPcs == {"pub_check", "fetch", "author_check", "search", "fill", "fill_retry"}

----------------------------------------------------------------------------
\* The cancel flag is set and the worker stopped at a checkpoint because of it.
Cancelled(j) == JOBS[j].cancelled /\ worker[j].stopped # ""

\* C1: once the worker of a job has finished, exactly one of the outcomes
\* Completed (done), Failed (error message set), Cancelled (cancel flag set,
\* and honoured by the worker) describes the job.
C1_ExactlyOneOutcome ==
    \A j \in Jobs :
        Finished(j) =>
            Num(JOBS[j].done) + Num(Failed(j)) + Num(Cancelled(j)) = 1

\* C2: a job whose worker met the cancel flag at the checkpoint before a
\* publication or before an author is never marked done and publishes no
\* artifact location.
C2_CancelledNeverDone ==
    \A j \in Jobs :
        worker[j].stopped \in {"publication", "author"} =>
            ~JOBS[j].done /\ JOBS[j].filename = NoneV

\* C3: once the worker has taken the cancel branch of a checkpoint it starts
\* no further publication fetch and no further author lookup; a fetch in
\* flight when the flag is set completes and its result is recorded.
C3_NoFetchAfterStop ==
    /\ [](\A j \in Jobs : worker[j].stopped # "" => worker[j].pc \notin FetchPcs)
    /\ [][\A j \in Jobs :
            (worker[j].pc = "fetch" /\ JOBS[j].cancelled /\ worker'[j] # worker[j]) =>
                /\ Len(worker'[j].results) = Len(worker[j].results) + 1
                /\ worker'[j].stopped = ""]_vars

C3_Witness ==
    \E j \in Jobs :
        /\ worker[j].stopped = "publication"
        /\ worker[j].results # <<>>
        /\ Finished(j)

\* C4: a job whose worker stopped at a checkpoint because of the cancel flag
\* has no error message.
C4_CancelSetsNoError ==
    \A j \in Jobs : worker[j].stopped # "" => JOBS[j].error = NoneV

\* C5 (as stated): once a job is done or has an error message, no step changes
\* its done flag, error message, cancel flag or artifact location.
C5_TerminalImmutable ==
    [][\A j \in Jobs :
          Terminal(j) =>
              /\ JOBS'[j].done = JOBS[j].done
              /\ JOBS'[j].error = JOBS[j].error
              /\ JOBS'[j].cancelled = JOBS[j].cancelled
              /\ JOBS'[j].filename = JOBS[j].filename]_vars

\* C5 (amended): once a job is done or has an error message, no step changes
\* its done flag, error message or artifact location; the cancel flag can
\* still be set by a stop request, and is never cleared.
C5_TerminalOutcomeImmutable ==
    [][\A j \in Jobs :
          /\ Terminal(j) =>
                /\ JOBS'[j].done = JOBS[j].done
                /\ JOBS'[j].error = JOBS[j].error
                /\ JOBS'[j].filename = JOBS[j].filename
          /\ JOBS[j].cancelled => JOBS'[j].cancelled]_vars

C5_Witness ==
    \E j \in Jobs :
        /\ Finished(j) /\ JOBS[j].done /\ JOBS[j].filename # NoneV
        /\ JOBS[j].cancelled /\ worker[j].stopped = ""

\* C6 (as stated): every publication whose fetch failed was fetched a second
\* time, and its skipping left a warning line in the log.
C6_OneRetryThenWarning ==
    \A j \in Jobs :
        /\ worker[j].fetch_calls =
               Len(worker[j].results) + Cardinality(FailedPubs(worker[j].results))
        /\ worker[j].kind = "single" =>
               Cardinality(Warnings(worker[j].logs)) =
                   Cardinality(FailedPubs(worker[j].results))

\* C6 (amended): a publication is fetched once, there is no retry; a failed
\* fetch appends no line and changes nothing in the registry, and the worker
\* goes on with the next publication; a single-author job ends with the
\* error of an empty table only if no publication was fetched at all.
C6_SkipWithoutRetry ==
    /\ [](\A j \in Jobs :
            /\ worker[j].fetch_calls = Len(worker[j].results)
            /\ JOBS[j].error = "No publication rows to write." =>
                   worker[j].pub_citation_data = <<>>)
    /\ [][\A j \in Jobs :
            (worker[j].pc = "fetch" /\ worker'[j] # worker[j]) =>
                /\ JOBS'[j] = JOBS[j]
                /\ worker'[j].pub_idx = worker[j].pub_idx + 1
                /\ worker'[j].pc = PubLoop(worker[j], worker[j].pub_idx + 1)]_vars

C6_Witness ==
    \E j \in Jobs :
        /\ Len(worker[j].results) = 2
        /\ ~worker[j].results[1] /\ worker[j].results[2]
        /\ worker[j].pub_citation_data = <<2>>

\* The authors whose summary row was appended, in the order of the rows.
RowAuthors(summaries) == [k \in 1..Len(summaries) |-> summaries[k].author]

\* The authors that were resolved, loaded and processed to the end.
OkAuthors(outcome) ==
    SelectSeq([k \in 1..Len(outcome) |-> k], LAMBDA k : outcome[k] = "ok")

\* C7: in a multi-author job a failure to resolve or load an author skips
\* that author only: the rows are those of the processed authors, one each,
\* in submission order; unless the job is cancelled every author of the list
\* is handled; the published summaries are these rows.  A single-author job
\* whose author cannot be resolved or loaded ends with an error, not done.
C7_AuthorFailureIsLocal ==
    \A j \in Jobs :
        LET w == worker[j] IN
        /\ w.kind = "multi" =>
              /\ RowAuthors(w.summaries) = OkAuthors(w.outcome)
              /\ Len(w.outcome) = (IF w.pc \in {"begin", "author_check", "search", "fill",
                                                "fill_retry", "pub_check", "fetch", "post_check"}
                                   THEN w.idx - 1
                                   ELSE IF w.stopped # "" THEN Len(w.outcome) ELSE w.nIds)
              /\ JOBS[j].multi_summaries.some =>
                    /\ JOBS[j].multi_summaries.v = w.summaries
                    /\ RowAuthors(JOBS[j].multi_summaries.v) = OkAuthors(w.outcome)
        /\ (w.kind = "single" /\ w.outcome = <<"failed">> /\ Finished(j)) =>
              Failed(j) /\ ~JOBS[j].done

C7_Witness ==
    \E j \in Jobs :
        /\ worker[j].kind = "multi" /\ Finished(j)
        /\ worker[j].outcome = <<"failed", "ok">>
        /\ JOBS[j].multi_summaries.some
        /\ RowAuthors(JOBS[j].multi_summaries.v) = <<2>>

\* C8: a job in which no publication record was fetched is never marked done,
\* and when its worker has finished it has an error message.
C8_EmptyResultFails ==
    \A j \in Jobs :
        worker[j].records = 0 =>
            /\ ~JOBS[j].done
            /\ Finished(j) => Failed(j)

\* C9: a single-author job that was not stopped by a cancellation, in which
\* a publication fetch succeeded and the export was written, ends done with
\* no error, and its result holds the publications whose fetch succeeded,
\* each once and in fetch order.
C9_PartialResultCompletes ==
    \A j \in Jobs :
        LET w == worker[j] IN
        (/\ w.kind = "single" /\ Finished(j) /\ w.stopped = ""
         /\ OkPubs(w.results) # <<>> /\ j \in files /\ w.file = "complete") =>
            /\ JOBS[j].done /\ ~Failed(j)
            /\ JOBS[j].citation_data = Some(OkPubs(w.results))

C9_Witness ==
    \E j \in Jobs :
        /\ worker[j].kind = "single" /\ Finished(j) /\ worker[j].stopped = ""
        /\ worker[j].results = <<FALSE, TRUE>>
        /\ JOBS[j].done /\ JOBS[j].citation_data = Some(<<2>>)

\* C10 (as stated): from the creation of a job on, the status text only
\* grows: what a read sees is a prefix of what every later read sees.
C10_StatusAppendOnly ==
    [][\A j \in Jobs : IsPrefix(JOBS[j].status, JOBS'[j].status)]_vars

\* C10 (amended): the status set at submission is a placeholder that the
\* first line of the worker replaces; from that line on the status only
\* grows, by the lines of the worker in the order it appended them.
C10_StatusAppendOnlyAfterFirstLine ==
    /\ [](\A j \in Jobs :
            \/ worker[j].logs = <<>> /\ JOBS[j].status = NewJob(worker[j].kind).status
            \/ worker[j].logs # <<>> /\ IsPrefix(worker[j].logs, JOBS[j].status))
    /\ [][\A j \in Jobs :
            worker[j].logs # <<>> =>
                /\ IsPrefix(JOBS[j].status, JOBS'[j].status)
                /\ IsPrefix(worker[j].logs, worker'[j].logs)]_vars

C10_Witness ==
    \E j \in Jobs :
        /\ Finished(j) /\ Len(JOBS[j].status) >= 4
        /\ JOBS[j].status[1] # NewJob(worker[j].kind).status[1]

----------------------------------------------------------------------------
\* C11: a stop request on a known job sets the cancel flag and reports
\* success, and a repeated one changes nothing; on an unknown id it reports
\* failure, changes no job and creates none; no step clears a set flag.
C11_StopIdempotent ==
    /\ [][\A j \in JobIds : stop_job(j) =>
            /\ DOMAIN JOBS' = DOMAIN JOBS
            /\ IF stop_job_success(j)
               THEN /\ j \in DOMAIN JOBS
                    /\ JOBS' = [JOBS EXCEPT ![j].cancelled = TRUE]
                    /\ JOBS[j].cancelled => JOBS' = JOBS
               ELSE /\ j \notin DOMAIN JOBS
                    /\ JOBS' = JOBS]_vars
    /\ [][\A j \in DOMAIN JOBS :
            JOBS[j].cancelled => j \in DOMAIN JOBS' /\ JOBS'[j].cancelled]_vars

\* A job whose flag was set by a request alone, its worker still running,
\* while another id names no job.
C11_Witness ==
    \E j \in DOMAIN JOBS :
        /\ JOBS[j].cancelled /\ worker[j].stopped = "" /\ Running(j)
        /\ JobIds \ DOMAIN JOBS # {}

\* The log lines that record a cancellation.
CancelLines == { Line("Job cancelled by user."),
                 Line("Job cancelled during publications retrieval.") }

\* C12: once a stop request was accepted for a job, the status text of the
\* job contains a line that records the cancellation request.
C12_StopAppendsAdvisoryLine ==
    \A j \in DOMAIN JOBS :
        JOBS[j].cancelled =>
            \E i \in 1..Len(JOBS[j].status) : JOBS[j].status[i] \in CancelLines

\* C13: a submission registers exactly one new job, under an id no job has,
\* in the initial state (not done, no error, no artifact, no results, cancel
\* flag clear) with its worker not yet started, and leaves every registered
\* job and its worker as they are; a worker exists only for a registered job,
\* and no entry is ever removed.
C13_SubmitRegistersFreshJob ==
    /\ [][(start \/ start_multi) =>
            \E j \in JobIds \ DOMAIN JOBS :
                /\ DOMAIN JOBS' = DOMAIN JOBS \cup {j}
                /\ DOMAIN worker' = DOMAIN JOBS'
                /\ ~ JOBS'[j].done /\ ~ JOBS'[j].cancelled
                /\ JOBS'[j].error = NoneV /\ JOBS'[j].filename = NoneV
                /\ JOBS'[j].citation_data = NoneSeq
                /\ JOBS'[j].multi_summaries = NoneSeq
                /\ worker'[j].pc = "begin"
                /\ \A k \in DOMAIN JOBS :
                       JOBS'[k] = JOBS[k] /\ worker'[k] = worker[k]]_vars
    /\ [](DOMAIN worker = DOMAIN JOBS)
    /\ [][DOMAIN JOBS \subseteq DOMAIN JOBS']_vars

\* A second job was registered while the first one was under way, and the
\* first one went on to complete.
C13_Witness ==
    /\ DOMAIN JOBS = {1, 2}
    /\ JOBS[1].done /\ JOBS[1].filename # NoneV
    /\ worker[2].pc = "begin" /\ Len(JOBS[2].status) = 1

\* C14: a step of the worker of job a, and a stop request for job a, leave
\* the registry entry of every other job unchanged.
C14_JobsIsolated ==
    [][\A a \in DOMAIN JOBS :
          (worker'[a] # worker[a] \/ stop_job(a)) =>
              \A b \in DOMAIN JOBS \ {a} : JOBS'[b] = JOBS[b]]_vars

\* Two jobs that ran side by side: one was stopped and ended without a
\* result, the other completed untouched by the stop.
C14_Witness ==
    \E a, b \in DOMAIN JOBS :
        /\ a # b
        /\ JOBS[a].cancelled /\ worker[a].stopped # "" /\ ~ JOBS[a].done
        /\ worker[a].pc = "finished"
        /\ JOBS[b].done /\ ~ JOBS[b].cancelled

\* The last entry of a non-empty sequence.
Last(s) == s[Len(s)]

\* C15: a failed first load of an author is followed by exactly one further
\* load, of the publications section only; when that one succeeds the worker
\* goes on with the author's publications, and only when it fails too is the
\* author given up: a single-author job stores the error, a multi-author job
\* logs a line and goes to the next author without a summary row.
C15_AuthorLoadRetriedOnce ==
    /\ [](\A j \in DOMAIN JOBS :
            LET w == worker[j] IN
            /\ w.fill_calls <= 2
            /\ w.pc = "fill" => w.fill_calls = 0
            /\ w.pc = "fill_retry" => w.fill_calls = 1 /\ w.sections = ""
            /\ w.sections = "full" => w.fill_calls = 1
            /\ w.sections = "publications" => w.fill_calls = 2
            /\ (w.kind = "single" /\ w.pc = "finished"
                  /\ w.err = "Failed to retrieve author") =>
                   JOBS[j].error = w.err /\ ~ JOBS[j].done)
    /\ [][\A j \in DOMAIN JOBS :
            LET w == worker[j]
                v == worker'[j]
                proceeds(s) == /\ v.sections = s /\ v.idx = w.idx
                               /\ v.err = w.err /\ v.outcome = w.outcome
                               /\ v.pc = IF v.nPubs > 0 THEN "pub_check"
                                         ELSE IF w.kind = "single" THEN "no_pubs"
                                         ELSE "post_check"
            IN
            /\ (w.pc = "fill" /\ v # w) =>
                   \/ proceeds("full")
                   \/ /\ v.pc = "fill_retry" /\ v.idx = w.idx
                      /\ v.err = w.err /\ v.outcome = w.outcome
                      /\ v.summaries = w.summaries
            /\ (w.pc = "fill_retry" /\ v # w) =>
                   \/ proceeds("publications")
                   \/ /\ w.kind = "single"
                      /\ v.pc = "set_error" /\ v.err = "Failed to retrieve author"
                   \/ /\ w.kind = "multi"
                      /\ Last(JOBS'[j].status) = Line("Failed to fill author. Skipping.")
                      /\ v.idx = w.idx + 1 /\ v.summaries = w.summaries
                      /\ v.outcome = Append(w.outcome, "failed")]_vars

\* The second load of an author succeeded, the publications it returned were
\* fetched, and the job completed.
C15_Witness ==
    \E j \in DOMAIN JOBS :
        /\ worker[j].sections = "publications"
        /\ worker[j].records > 0
        /\ worker[j].pc = "finished" /\ JOBS[j].done

\* The count of a publication in a year, 0 when the year is unobserved.
CountAt(p, y) == IF y \in DOMAIN p.cites_by_year THEN p.cites_by_year[y] ELSE 0

\* The sum of the counts of the publications in year y.
RECURSIVE SumAt(_, _)
SumAt(pubs, y) ==
    IF pubs = << >> THEN 0 ELSE CountAt(Head(pubs), y) + SumAt(Tail(pubs), y)

\* The years of a publication with a count > 0.
CitedYears(p) == { y \in DOMAIN p.cites_by_year : p.cites_by_year[y] > 0 }

\* C16 (as claimed): the start year of a processed publication is unset
\* without per-year data, else the first year with a count > 0, else, all
\* counts being zero, the first year present.
C16_StartYearFallsBackToFirstKey ==
    \A i \in 1..Len(pubdata) :
        LET p == pubdata[i] IN
        p.start_year = IF DOMAIN p.cites_by_year = {} THEN NoYear
                       ELSE IF CitedYears(p) # {} THEN Min(CitedYears(p))
                       ELSE Min(DOMAIN p.cites_by_year)

\* C16 (amended): the start year of a processed publication is unset exactly
\* when no year has a count > 0 (no data, or zero counts only); otherwise it
\* is a year with a count > 0 before which every observed count is zero.
C16_StartYearFirstCitedYear ==
    \A i \in 1..Len(pubdata) :
        LET p == pubdata[i] IN
        /\ p.start_year = NoYear <=> CitedYears(p) = {}
        /\ p.start_year # NoYear =>
              /\ p.start_year \in CitedYears(p)
              /\ \A y \in DOMAIN p.cites_by_year :
                     y < p.start_year => p.cites_by_year[y] = 0

\* Processed: a publication with zero counts only, and one whose first
\* observed year has a zero count and a later one a positive count.
C16_Witness ==
    /\ \E i \in 1..Len(pubdata) :
          /\ DOMAIN pubdata[i].cites_by_year # {}
          /\ CitedYears(pubdata[i]) = {}
          /\ pubdata[i].start_year = NoYear
    /\ \E i \in 1..Len(pubdata) :
          /\ pubdata[i].start_year # NoYear
          /\ pubdata[i].start_year > Min(DOMAIN pubdata[i].cites_by_year)

\* C17: the publication sheet has max(maxSpan + 2, 5) Year columns, maxSpan
\* being the largest max(0, maxCiteYear - startYear + 1) of a publication
\* with a start year: at least 5, at least every span + 2, and exactly 5 or
\* exactly some publication's span + 2.
C17_YearColumnCount ==
    export.built = "single" =>
        LET started == { i \in 1..Len(pubdata) : pubdata[i].start_year # NoYear }
            maxCiteYear == Max(all_citation_years(pubdata))
            span(i) == IF maxCiteYear - pubdata[i].start_year + 1 > 0
                       THEN maxCiteYear - pubdata[i].start_year + 1 ELSE 0
            n == export.num_years
        IN /\ n >= 5
           /\ \A i \in started : n >= span(i) + 2
           /\ n = 5 \/ \E i \in started : n = span(i) + 2
           /\ \A i \in 1..Len(export.rows) : Len(export.rows[i]) = n

\* A sheet whose widest publication needs more than 5 columns, next to a
\* publication with a shorter span.
C17_Witness ==
    /\ export.built = "single" /\ export.num_years > 5
    /\ \E i, k \in 1..Len(pubdata) :
          /\ pubdata[i].start_year # NoYear /\ pubdata[k].start_year # NoYear
          /\ pubdata[i].start_year < pubdata[k].start_year

\* C18: in the row of a publication with start year Y, the cell Year i holds
\* the observed count of year Y + i - 1 (0 stays 0) and is blank when that
\* year is unobserved; every cell is blank without a start year.  The row
\* depends on its own publication only.
C18_RowAlignedToOwnStart ==
    export.built = "single" =>
        /\ Len(export.rows) = Len(pubdata)
        /\ \A r \in 1..Len(pubdata) : \A i \in 1..export.num_years :
              LET p == pubdata[r]
                  y == p.start_year + i - 1
              IN export.rows[r][i] =
                    IF p.start_year = NoYear THEN Blank
                    ELSE IF y \in DOMAIN p.cites_by_year THEN p.cites_by_year[y]
                    ELSE Blank

\* Two rows aligned to different start years; one of them shows a count,
\* blanks for the unobserved years and an observed 0.
C18_Witness ==
    /\ export.built = "single"
    /\ \E r, q \in 1..Len(pubdata) :
          /\ pubdata[r].start_year # NoYear /\ pubdata[q].start_year # NoYear
          /\ pubdata[r].start_year < pubdata[q].start_year
          /\ export.rows[r][1] > 0 /\ export.rows[q][1] > 0
          /\ \E i, k \in 2..export.num_years :
                export.rows[r][i] = Blank /\ export.rows[r][k] = 0

\* C19: minCiteYear and maxCiteYear are the first and last year of the
\* publications' citation data, else of the publication years, else the
\* current year; the aggregate has exactly the years between them and maps
\* each to the sum of the publications' counts in it (0 if none was cited).
C19_AggregateOverCiteYears ==
    export.built # "none" =>
        LET a == export.years
            cited == all_citation_years(pubdata)
            published == { y \in PubYears : \E i \in 1..Len(pubdata) :
                                                pubdata[i].pub_year = y }
        IN /\ cited # {} =>
                 a.min_cite_year = Min(cited) /\ a.max_cite_year = Max(cited)
           /\ (cited = {} /\ published # {}) =>
                 a.min_cite_year = Min(published) /\ a.max_cite_year = Max(published)
           /\ (cited = {} /\ published = {}) =>
                 a.min_cite_year = CurrentYear /\ a.max_cite_year = CurrentYear
           /\ DOMAIN a.agg_years = a.min_cite_year..a.max_cite_year
           /\ \A y \in DOMAIN a.agg_years : a.agg_years[y] = SumAt(pubdata, y)

\* Two publications cited in the same year, with an uncited year between
\* the first and the last year of the author.
C19_Witness ==
    /\ export.built # "none"
    /\ \E y \in DOMAIN export.years.agg_years :
          /\ \A i \in 1..Len(pubdata) : CountAt(pubdata[i], y) > 0
          /\ Len(pubdata) > 1
    /\ \E y \in DOMAIN export.years.agg_years :
          export.years.agg_years[y] = 0 /\ y \notin all_citation_years(pubdata)

\* C20: the filtered aggregate of a multi-author job maps every year to the
\* sum of the counts of the publications flagged both full-length article
\* and qualifying venue.
C20_FilteredAggregateNeedsBothFlags ==
    export.built = "multi" =>
        LET both(p) == p.utd_journal = "Yes" /\ p.utd_full_article = 1
        IN \A y \in DOMAIN export.years.agg_years_utd :
               export.years.agg_years_utd[y] = SumAt(SelectSeq(pubdata, both), y)

\* The larger of two numbers.
Larger(a, b) == IF a >= b THEN a ELSE b

\* C21: summaryStartYear = max(minCiteYear, 1990) and summaryEndYear =
\* max(summaryStartYear, maxCiteYear), for the summary of either kind of job;
\* so the start is at least 1990, the end at least the start and the span
\* at least 1.
C21_SummaryYearsClamped ==
    export.built \in {"single", "multi"} =>
        LET a == export.years IN
        /\ a.summary_start_year = Larger(a.min_cite_year, 1990)
        /\ a.summary_end_year = Larger(a.summary_start_year, a.max_cite_year)
        /\ a.summary_years_span = a.summary_end_year - a.summary_start_year + 1
        /\ a.summary_start_year >= 1990
        /\ a.summary_end_year >= a.summary_start_year
        /\ a.summary_years_span >= 1

\* A summary of an author all of whose citation data lies before 1990.
C21_Witness ==
    /\ export.built \in {"single", "multi"}
    /\ all_citation_years(pubdata) # {}
    /\ export.years.max_cite_year < 1990
    /\ \E i \in 1..Len(pubdata) : pubdata[i].start_year # NoYear

\* The value the aggregate agg gives to year y in a summary: 0 without entry.
AggregateAt(agg, y) == IF y \in DOMAIN agg THEN agg[y] ELSE 0

\* C22: within the span of an author the summary cell Year i holds the
\* author's aggregate of the year summaryStartYear + i - 1, and 0, never a
\* blank, when the aggregate has no entry for it; the cell is the sum of
\* the publications' counts of that one year, so that no count of a year
\* before summaryStartYear is in any cell.
C22_SummaryCellsFromStartYear ==
    /\ export.built = "single" =>
          LET a == export.years IN
          /\ Len(export.year_n_values) = a.summary_years_span
          /\ \A i \in 1..a.summary_years_span :
                LET y == a.summary_start_year + i - 1 IN
                /\ export.year_n_values[i] = AggregateAt(a.agg_years, y)
                /\ export.year_n_values[i] = SumAt(pubdata, y)
                /\ export.year_n_values[i] # Blank
    /\ export.built = "multi_rows" =>
          \A k \in 1..Len(author_summaries) :
             LET s == author_summaries[k] IN
             \A i \in 1..s.summary_years_span :
                LET y == s.summary_start_year + i - 1 IN
                /\ export.rows[k][i] = AggregateAt(s.agg_years, y)
                /\ export.rows[k][i] # Blank
                /\ k = Len(author_summaries) => export.rows[k][i] = SumAt(pubdata, y)

\* A summary row of an author cited before 1990 and after: the counts before
\* 1990 are in no cell, an uncited year shows 0; and a summary row whose
\* only year has no entry in the aggregate.
C22_Witness ==
    \/ /\ export.built = "single"
       /\ \E y \in DOMAIN export.years.agg_years :
             y < export.years.summary_start_year /\ export.years.agg_years[y] > 0
       /\ \E i, k \in 1..Len(export.year_n_values) :
             export.year_n_values[i] = 0 /\ export.year_n_values[k] > 0
    \/ /\ export.built = "multi_rows"
       /\ \E k \in 1..Len(author_summaries) :
             LET s == author_summaries[k] IN
             /\ s.summary_start_year \notin DOMAIN s.agg_years
             /\ \E y \in DOMAIN s.agg_years : s.agg_years[y] > 0
             /\ export.rows[k][1] = 0

\* C23: the sheet of a multi-author job has as many Year columns as the
\* largest summary span of its authors, every row has that width, and the
\* cells beyond the own span of an author are blank.
C23_MultiSheetWidth ==
    export.built = "multi_rows" =>
        LET spans == { author_summaries[k].summary_end_year
                         - author_summaries[k].summary_start_year + 1 :
                       k \in 1..Len(author_summaries) }
        IN /\ export.max_individual_span = Max(spans)
           /\ Len(export.rows) = Len(author_summaries)
           /\ \A k \in 1..Len(author_summaries) :
                 /\ Len(export.rows[k]) = export.max_individual_span
                 /\ \A i \in 1..export.max_individual_span :
                       i > author_summaries[k].summary_years_span
                          <=> export.rows[k][i] = Blank

\* Two authors with different spans: the row of the first is shorter than
\* the sheet and ends in blanks.
C23_Witness ==
    /\ export.built = "multi_rows"
    /\ Len(author_summaries) = 2
    /\ author_summaries[1].summary_years_span < author_summaries[2].summary_years_span
    /\ export.rows[1][export.max_individual_span] = Blank
    /\ export.rows[2][export.max_individual_span] # Blank

\* How many entries of the list s are e.
Occurrences(s, e) == Cardinality({ i \in 1..Len(s) : s[i] = e })

\* The publication and the Year cells in row i of the publication sheet.
SheetPub(i) == pubdata[export.sheet[i].row]
SheetCells(i) == export.rows[export.sheet[i].row]

\* C24: the rows of the publication sheet of a single-author job are the
\* processed publications, each as often as it was processed, with their
\* own Year cells; total citations never increase from a row to the next;
\* Rank is the position of the row, 1..n.
C24_RowsRankedByTotalCitations ==
    export.built = "single" =>
        LET sheet == export.sheet
            published == [ i \in 1..Len(sheet) |-> SheetPub(i) ]
        IN /\ Len(sheet) = Len(pubdata)
           /\ \A i \in 1..Len(pubdata) :
                 Occurrences(published, pubdata[i]) = Occurrences(pubdata, pubdata[i])
           /\ \A k \in 1..Len(pubdata) :
                 Cardinality({ i \in 1..Len(sheet) : sheet[i].row = k }) = 1
           /\ \A i \in 1..Len(sheet) - 1 :
                 SheetPub(i).total_citations >= SheetPub(i + 1).total_citations
           /\ \A i \in 1..Len(sheet) : sheet[i].Rank = i

\* Two publications processed in the order of growing totals: the sheet
\* has the second one first.
C24_Witness ==
    /\ export.built = "single"
    /\ Len(pubdata) = 2
    /\ pubdata[1].total_citations < pubdata[2].total_citations
    /\ SheetPub(1) = pubdata[2] /\ export.sheet[1].Rank = 1
    /\ SheetPub(2) = pubdata[1] /\ export.sheet[2].Rank = 2

\* The sum of the counts of a dict of per-year counts.
RECURSIVE SumOfCounts(_, _)
SumOfCounts(cites, keys) ==
    IF keys = {} THEN 0
    ELSE LET y == Min(keys) IN cites[y] + SumOfCounts(cites, keys \ {y})

\* C25: the total citations of a processed publication are a count the
\* source supplied (num_citations or citedby) when it supplied one, and the
\* sum of the per-year counts of the publication when it supplied none.
C25_TotalFromSourceOrSum ==
    \A i \in 1..Len(pubdata) :
        LET pub_filled == fetched[i]
            p == pubdata[i]
            supplied == { f.v : f \in { g \in {pub_filled.num_citations, pub_filled.citedby} :
                                          g.some } }
        IN IF supplied # {}
           THEN p.total_citations \in supplied
           ELSE p.total_citations = SumOfCounts(p.cites_by_year, DOMAIN p.cites_by_year)

\* The field the per-year counts of a record are to be read from: the first
\* spelling when it holds a dict, else the second when it holds one.
FirstDict(pub_filled) ==
    IF pub_filled.cites_per_year.kind = "dict" THEN <<pub_filled.cites_per_year.items>>
    ELSE IF pub_filled.citesPerYear.kind = "dict" THEN <<pub_filled.citesPerYear.items>>
    ELSE << >>

\* C26: the per-year counts of a processed publication are those of one
\* field of its record, the first of cites_per_year, citesPerYear that is a
\* dict: a year is in the result exactly when that field has an entry for
\* it whose year and count both coerce to an integer, and then with that
\* count; nothing of the other field is added; a record with no such field
\* has the empty dict, and is processed all the same.
C26_CountsFromFirstField ==
    /\ Len(pubdata) = Len(fetched)
    /\ \A i \in 1..Len(pubdata) :
          LET field == FirstDict(fetched[i])
              cites == pubdata[i].cites_by_year
          IN IF field = << >>
             THEN cites = << >>
             ELSE LET items == field[1] IN
                  /\ \A y \in DOMAIN cites :
                        /\ Coercible(y) \in DOMAIN items
                        /\ items[Coercible(y)] = Coercible(cites[y])
                  /\ \A k \in DOMAIN items :
                        (k.ok /\ items[k].ok) => k.v \in DOMAIN cites

\* A record with both spellings: the first has a good entry and one whose
\* count does not coerce, the second has a count for that year; the result
\* is the good entry alone.
C26_Witness ==
    \E i \in 1..Len(pubdata) :
        LET pub_filled == fetched[i]
            cites == pubdata[i].cites_by_year
        IN /\ pub_filled.cites_per_year.kind = "dict"
           /\ pub_filled.citesPerYear.kind = "dict"
           /\ \E y, z \in Years :
                 /\ y # z
                 /\ DOMAIN cites = {y}
                 /\ Coercible(z) \in DOMAIN pub_filled.cites_per_year.items
                 /\ ~ pub_filled.cites_per_year.items[Coercible(z)].ok
                 /\ Coercible(z) \in DOMAIN pub_filled.citesPerYear.items
                 /\ pub_filled.citesPerYear.items[Coercible(z)].ok

\* The page numbers the ranges are read against.
MaxPage == 120

\* The decimal numeral of a natural number.
RECURSIVE Numeral(_)
Numeral(n) ==
    IF n < 10 THEN <<Digits[n + 1]>>
    ELSE Append(Numeral(n \div 10), Digits[(n % 10) + 1])

\* The page field is a range "start-end" of two page numbers, blanks, dots
\* and commas aside, with end - start >= 6.
LongRange(field) ==
    LET written(c) == c \notin {" ", ".", ","}
        range == SelectSeq(field, written)
    IN \E d \in 1..Len(range) :
          /\ range[d] = "-"
          /\ \E a \in 0..MaxPage :
                /\ SubSeq(range, 1, d - 1) = Numeral(a)
                /\ \E b \in 0..MaxPage :
                      /\ SubSeq(range, d + 1, Len(range)) = Numeral(b)
                      /\ b - a >= 6

\* C27: every record is processed, and the full-article flag of the entry
\* is set exactly when the pages of the record are a range start-end of
\* integers with end - start >= 6, whatever the journal: no pages, a single
\* page, other characters or a shorter range leave it unset.
C27_FullArticleIffLongRange ==
    /\ Len(pubdata) = Len(fetched)
    /\ \A i \in 1..Len(pubdata) :
          /\ pubdata[i].utd_full_article \in {0, 1}
          /\ pubdata[i].utd_full_article = 1 <=> LongRange(fetched[i].pages)

\* The range 100-108 in a journal that is not on the list: the flag is set.
C27_Witness ==
    \E i \in 1..Len(pubdata) :
        /\ fetched[i].pages = <<"1", "0", "0", "-", "1", "0", "8">>
        /\ pubdata[i].utd_journal = "No"
        /\ pubdata[i].utd_full_article = 1

C29_DoneMultiJobHasSummaries ==
    \A j \in Jobs :
        (Multi(j) /\ JOBS[j].done) =>
            /\ Truthy(JOBS[j].multi_summaries)
            /\ job_status_links(j).download_url = "download_multi"
            /\ job_status_links(j).visualization_url = "visualization_multi"
            /\ api_multi_summary_success(j)

\* C30: a job that is done has a filename; a job has a filename only when
\* the file of its export is complete; and neither download sends the file
\* of a job whose write is not finished or has failed.
C30_FilenameOnlyAfterCompleteWrite ==
    \A j \in Jobs :
        /\ JOBS[j].done => JOBS[j].filename # NoneV
        /\ JOBS[j].filename # NoneV => (j \in files /\ worker[j].file = "complete")
        /\ (download_file_success(j) \/ download_multi_success(j)) =>
              /\ worker[j].file = "complete"
              /\ worker[j].pc \notin {"write", "save"}
              /\ worker[j].err # "export failed"

\* A job whose write failed and left a file behind: the file exists, the
\* job has no filename, and the download does not send it.
C30_Witness ==
    \E j \in Jobs :
        /\ worker[j].err = "export failed" /\ Failed(j)
        /\ j \in files /\ worker[j].file = "partial"
        /\ JOBS[j].filename = NoneV
        /\ ~ download_file_success(j)

\* C31: no job is done and has an error message at once, at any point of
\* its run; an exception the worker raises as late as the export write
\* leaves the job with the error and not done.
C31_NeverDoneAndFailed ==
    \A j \in Jobs : ~ (JOBS[j].done /\ Failed(j))

\* A worker that got through all of its publications and raised in the
\* write of the export: it has finished with the error of the write, and the
\* job is not done.
C31_Witness ==
    \E j \in Jobs :
        /\ Finished(j) /\ worker[j].err = "export failed"
        /\ worker[j].records > 0
        /\ Failed(j) /\ JOBS[j].error = "export failed"
        /\ ~ JOBS[j].done

\* C32: the worker of every job finishes, stopped or not, and a job whose
\* worker has finished is done or has an error message.
C32_EveryJobFinishes ==
    /\ \A j \in JobIds : (j \in Jobs) ~> (j \in Jobs /\ Finished(j))
    /\ [](\A j \in Jobs : Finished(j) => (JOBS[j].done \/ Failed(j)))

\* A job that was stopped while its worker ran: the worker has finished.
C32_Witness ==
    \E j \in Jobs :
        /\ Finished(j) /\ JOBS[j].cancelled /\ worker[j].stopped # ""
        /\ (JOBS[j].done \/ Failed(j))

\* The worker saw the cancel flag while or right after it processed the
\* publications of an author.
StoppedInAuthor(w) == w.stopped \in {"publication", "after_publications"}

\* C33: in a multi-author job the list of summary rows only grows at its
\* end; a row is added for the author being processed, after every
\* publication of that author's list was visited and with the cancel flag
\* not seen; once the flag is seen while or right after an author's
\* publications are processed there is no row of that author, and the
\* summaries the job publishes are the rows of the authors before.
C33_RowsFromCompletePasses ==
    /\ [][ \A j \in DOMAIN worker :
             LET w == worker[j]
                 v == worker'[j]
             IN w.kind = "multi" =>
                  /\ IsPrefix(w.summaries, v.summaries)
                  /\ v.summaries # w.summaries =>
                        /\ Len(v.summaries) = Len(w.summaries) + 1
                        /\ Last(v.summaries).author = w.idx
                        /\ Last(v.summaries).num_publications = Len(w.pub_citation_data)
                        /\ Len(w.results) = w.nPubs
                        /\ w.stopped = "" /\ v.stopped = ""
                  /\ StoppedInAuthor(w) => v.summaries = w.summaries ]_vars
    /\ [](\A j \in Jobs :
             LET w == worker[j] IN
             (w.kind = "multi" /\ StoppedInAuthor(w)) =>
                 /\ \A k \in 1..Len(w.summaries) : w.summaries[k].author < w.idx
                 /\ JOBS[j].multi_summaries \in {NoneSeq, Some(w.summaries)})

\* The job was stopped in the publications of its second author, after a
\* record of that author was fetched: the published summaries are the row
\* of the first author.
C33_Witness ==
    \E j \in Jobs :
        LET w == worker[j] IN
        /\ w.kind = "multi" /\ Finished(j)
        /\ w.stopped = "publication" /\ w.idx = 2
        /\ w.pub_citation_data # << >>
        /\ Len(w.summaries) = 1 /\ w.summaries[1].author = 1
        /\ JOBS[j].multi_summaries = Some(w.summaries)

\* C34: in the publication sheet of a single-author job every observed year
\* of a publication from its start year on has its count in one of the
\* columns Year 1..Year N of the row, and the columns Year N-1 and Year N
\* of every row are blank.
C34_NoCountTruncated ==
    export.built = "single" =>
        LET n == export.num_years IN
        \A r \in 1..Len(pubdata) :
            LET p == pubdata[r]
                row == export.rows[r]
            IN /\ Len(row) = n /\ n >= 2
               /\ row[n - 1] = Blank /\ row[n] = Blank
               /\ p.start_year # NoYear =>
                     \A y \in DOMAIN p.cites_by_year :
                        y >= p.start_year =>
                           /\ y - p.start_year + 1 \in 1..(n - 2)
                           /\ row[y - p.start_year + 1] = p.cites_by_year[y]

\* A sheet of more than 5 columns: the row of the publication cited first
\* has the count of the last observed year in column Year N-2, and a later
\* publication has its last count further left.
C34_Witness ==
    /\ export.built = "single" /\ export.num_years > 5
    /\ \E r, q \in 1..Len(pubdata) :
          LET n == export.num_years IN
          /\ pubdata[r].start_year # NoYear /\ pubdata[q].start_year # NoYear
          /\ pubdata[r].start_year + n - 3 \in DOMAIN pubdata[r].cites_by_year
          /\ export.rows[r][n - 2] > 0
          /\ pubdata[q].start_year > pubdata[r].start_year
          /\ export.rows[q][n - 2] = Blank

====
